---- MODULE Spec2Model ----
(***************************************************************************)
(* Model of the SparkFrame generation server (src/services/geminiService.ts *)
(* lines 363-703): the in-memory usage counters (trackUsage, resetIfNeeded, *)
(* usageSnapshot), the concurrency limiter (limitConcurrency), the file     *)
(* cache (tryReadCache, writeCache) and the five POST handlers plus         *)
(* GET /api/usage.                                                          *)
(*                                                                          *)
(* Node runs every handler to its next await without interruption, so one   *)
(* action is one such run: the synchronous prefix of a handler up to the    *)
(* remote call (or its early response), one firing of the 50 ms poll timer  *)
(* of limitConcurrency, or the continuation that runs when the remote call  *)
(* settles.                                                                 *)
(***************************************************************************)
EXTENDS Integers, FiniteSets, Sequences, TLC

\* ---------------------------------------------------------------- bounds
MaxHandlers == 3      \* request handlers that may be suspended at once
MaxKeys == 2          \* distinct cache keys (hashed request inputs)
MaxData == 3          \* distinct image payloads the remote may return
MaxRequests == 3      \* Spec and GateSpec: requests admitted in one run of the model
MaxDrift == 1         \* ms the clock may advance between two Date.now() reads of one run
MaxSelections == 2    \* BlueprintPage: runs of handleFileChange awaiting conversions at once
MaxFiles == 3         \* BlueprintPage: files chosen in one file dialog
MaxCallers == 2       \* loadScript: callers awaiting one pending load
MaxScenes == 2        \* studio: scenes generated in one run of the model
MaxEdits == 3         \* studio: longest edit history of a scene
MaxImages == 2        \* studio: distinct images the image service may return
MaxPending == 2       \* studio: calls awaiting the image service or IndexedDB at once
MaxVersions == 3      \* studio: most versions of one storyboard scene

\* ------------------------------------------------------- program constants
imagesPerMinute == 20
requestsPerDay == 200
MAX_CONCURRENCY == 2
MINUTE_MS == 60 * 1000
DAY_MS == 24 * 60 * 60 * 1000
MaxRefImages == 3

Handlers == 1..MaxHandlers
Keys == 1..MaxKeys
Data == 1..MaxData

\* The instants at which the model lets events happen: construction, the last
\* millisecond of the first minute and of the first day, and the roll-over
\* instants themselves.
Instants == {0, MINUTE_MS - 1, MINUTE_MS, DAY_MS - 1, DAY_MS}

\* Values a later Date.now() may return after one that returned t.
Reads(t) == {s \in Instants \cup {t} : s >= t /\ s - t <= MaxDrift}

\* SnapSpec lets events happen at more instants: around whole seconds, in the
\* middle of a second, and just after the roll-over instants.
FineInstants ==
  Instants \cup {1, 999, 1000, 1001, 58500, MINUTE_MS - 1000, MINUTE_MS - 999, MINUTE_MS + 1,
                 2 * MINUTE_MS - 1, DAY_MS - 1000, DAY_MS - 999, DAY_MS + 1}

\* Request bodies.  /api/text reads req.body.prompt; "" is a prompt below any
\* minimum length.
TextPrompts == {"", "Continue the story of the lighthouse keeper."}

\* /api/generateImage reads prompt, characters and styleImages.  A body is a
\* scene prompt with one character {name, profile}, whose two properties the
\* client may have written in either order.
PropOrders == {"name,profile", "profile,name"}

\* JSON.stringify({prompt, characters, styleImages}): the handler fixes the
\* order of the three top-level properties, the nested objects are written in
\* the order in which the request listed their properties.
JSONstringify(b) == <<b.prompt, b.order>>

\* sha1 of the serialised text, as a number: different texts, different keys
stableHash(str) == 2 * (str[1] - 1) + (IF str[2] = "name,profile" THEN 1 ELSE 2)

\* The bodies whose key is one of Keys
Bodies == {b \in [prompt : Keys, order : PropOrders] : stableHash(JSONstringify(b)) \in Keys}

ImageRoutes == {"generateImage", "editImage", "characterPortrait"}
TextRoutes == {"text", "createProfile"}
Routes == ImageRoutes \cup TextRoutes

VARIABLES
  now,                \* the wall clock, ms since construction
  dailyWindowStart, requestsToday, minuteWindowStart, imagesThisMinute,
  inflight,           \* limitConcurrency's counter
  cache,              \* generated/cache/<hash>.png: key -> bytes, NoEntry if absent
  pc, route, key,     \* per suspended handler: position, endpoint, cache key of its request
  out,                \* the HTTP response written by the last step (NoResp if none)
  storedMime,         \* history: per key, the mimeType that the call which wrote the
                      \* cache entry sent to its caller ("" while there is no entry)
  winAdmits           \* history: .n image requests were admitted in the window that began
                      \* at .start, the first of them at .first; .afterFull: that
                      \* first one rolled a full window over

serverVars == <<now, dailyWindowStart, requestsToday, minuteWindowStart, imagesThisMinute,
                inflight, cache, pc, route, key, out, storedMime, winAdmits>>

\* The browser application (src/pages, src/App.tsx): one group of variables
\* per component that a property below is about.
VARIABLES
  refImages,          \* BlueprintPage: the refImages state, each image named by the run
                      \* of handleFileChange that appended it
  converting          \* BlueprintPage: per run of handleFileChange that awaits its
                      \* conversions, the number of files it took (0: no such run)

blueprintVars == <<refImages, converting>>

VARIABLES
  loadedScripts,      \* loadScript: per src "absent", or the state of the memoized promise
  scriptTags,         \* per src, the <script src> elements in the document: the load
                      \* attempts made so far
  scriptRan,          \* per src, whether a script element has loaded (onload fired)
  awaiting            \* per src, the callers awaiting the pending promise

scriptVars == <<loadedScripts, scriptTags, scriptRan, awaiting>>

VARIABLES
  activeScene,        \* App: the activeScene state (NoScene: null)
  storyboard,         \* App: the storyboard state
  isLoading,          \* EditorPage: the isLoading state
  editCall,           \* handleApplyChanges awaiting editImage: the activeScene and the
                      \* storyboard of the render whose handler was invoked
  genCall,            \* handleGenerate awaiting generateImageFromText: the storyboard
                      \* of the render whose handler was invoked
  updates,            \* runs of updateActiveScene awaiting dbService.setActiveScene,
                      \* oldest first: the scene passed and the closure's storyboard
  sceneClock          \* Date.now() of the latest generated scene id

studioVars == <<activeScene, storyboard, isLoading, editCall, genCall, updates, sceneClock>>

clientVars == <<blueprintVars, scriptVars, studioVars>>

vars == <<serverVars, clientVars>>

\* activeScene === null
NoScene == [id |-> 0, image |-> 0, editHistory |-> <<>>, imageHistory |-> <<>>]
\* no handler is suspended at the await
NoCall == [on |-> FALSE, scene |-> NoScene, sb |-> <<>>]
\* base64 images the image service may return
Images == 1..MaxImages

NoEntry == 0
NoMeta == [requestsToday |-> -1, imagesThisMinute |-> -1,
           minuteResetInSeconds |-> -1, dailyResetInSeconds |-> -1]
NoResp == [p |-> 0, route |-> "", status |-> 0, error |-> "", hit |-> FALSE, data |-> 0,
           mimeType |-> "", usage |-> NoMeta]

\* ------------------------------------------------------------ usage counters
Usage == [dailyWindowStart |-> dailyWindowStart, requestsToday |-> requestsToday,
          minuteWindowStart |-> minuteWindowStart, imagesThisMinute |-> imagesThisMinute]

SetUsage(u) ==
  /\ dailyWindowStart' = u.dailyWindowStart
  /\ requestsToday' = u.requestsToday
  /\ minuteWindowStart' = u.minuteWindowStart
  /\ imagesThisMinute' = u.imagesThisMinute

CeilSecondsFloor(x) == x \div 1000
\* Math.ceil(x / 1000) for an integer x
CeilSeconds(x) == -((-x) \div 1000)

Max0(x) == IF x > 0 THEN x ELSE 0

resetIfNeededEarly(u, t) ==
  LET d == IF t - u.dailyWindowStart >= DAY_MS - 1
           THEN [u EXCEPT !.dailyWindowStart = t, !.requestsToday = 0]
           ELSE u
  IN IF t - d.minuteWindowStart >= MINUTE_MS - 1
     THEN [d EXCEPT !.minuteWindowStart = t, !.imagesThisMinute = 0]
     ELSE d

resetIfNeededStrict(u, t) ==
  LET d == IF t - u.dailyWindowStart > DAY_MS
           THEN [u EXCEPT !.dailyWindowStart = t, !.requestsToday = 0]
           ELSE u
  IN IF t - d.minuteWindowStart > MINUTE_MS
     THEN [d EXCEPT !.minuteWindowStart = t, !.imagesThisMinute = 0]
     ELSE d

\* resetIfNeeded with Date.now() = t
resetIfNeeded(u, t) ==
  LET d == IF t - u.dailyWindowStart >= DAY_MS
           THEN [u EXCEPT !.dailyWindowStart = t, !.requestsToday = 0]
           ELSE u
  IN IF t - d.minuteWindowStart >= MINUTE_MS
     THEN [d EXCEPT !.minuteWindowStart = t, !.imagesThisMinute = 0]
     ELSE d

\* usageSnapshot: resetIfNeeded reads the clock as t1, the snapshot as t2
usageSnapshot(u, t1, t2) ==
  LET r == resetIfNeeded(u, t1)
  IN [u |-> r,
      meta |-> [requestsToday |-> r.requestsToday,
                imagesThisMinute |-> r.imagesThisMinute,
                minuteResetInSeconds |->
                  Max0(CeilSeconds(MINUTE_MS - (t2 - r.minuteWindowStart))),
                dailyResetInSeconds |->
                  Max0(CeilSeconds(DAY_MS - (t2 - r.dailyWindowStart)))]]

DailyLimitReached(u) == u.requestsToday >= requestsPerDay

MinuteLimitReachedOff(u) == u.imagesThisMinute > imagesPerMinute
MinuteLimitReached(u) == u.imagesThisMinute >= imagesPerMinute

CountImageOnly(u) == [u EXCEPT !.imagesThisMinute = @ + 1]
CountImage(u) == [u EXCEPT !.imagesThisMinute = @ + 1, !.requestsToday = @ + 1]

CountTextBoth(u) == [u EXCEPT !.requestsToday = @ + 1, !.imagesThisMinute = @ + 1]
CountText(u) == [u EXCEPT !.requestsToday = @ + 1]

trackUsageCountFirst(u, type, t1, t2, t3) ==
  LET r == CountText(resetIfNeeded(u, t1))
      s == usageSnapshot(r, t2, t3)
  IN IF r.requestsToday > requestsPerDay
     THEN [u |-> s.u, err |-> "daily_limit_exceeded", meta |-> s.meta]
     ELSE IF type = "image" /\ MinuteLimitReached(r)
     THEN [u |-> s.u, err |-> "minute_image_limit_exceeded", meta |-> s.meta]
     ELSE [u |-> IF type = "image" THEN CountImageOnly(r) ELSE r,
           err |-> "", meta |-> NoMeta]

\* trackUsage(type); the clock is read as t1 by its resetIfNeeded and, when it
\* rejects, as t2 and t3 by the usageSnapshot it attaches to the error.
\* err = "" means the request was admitted.
trackUsage(u, type, t1, t2, t3) ==
  LET r == resetIfNeeded(u, t1)
      s == usageSnapshot(r, t2, t3)
  IN IF DailyLimitReached(r)
     THEN [u |-> s.u, err |-> "daily_limit_exceeded", meta |-> s.meta]
     ELSE IF type = "image" /\ MinuteLimitReached(r)
     THEN [u |-> s.u, err |-> "minute_image_limit_exceeded", meta |-> s.meta]
     ELSE [u |-> IF type = "image" THEN CountImage(r) ELSE CountText(r),
           err |-> "", meta |-> NoMeta]

\* respondRateLimited(res, err): status err.status (429 on every path that
\* reaches it), body {error: err.message, usage: err.meta || usageSnapshot()}
respondRateLimited(p, r, message, meta) ==
  [p |-> p, route |-> r, status |-> 429, error |-> message, hit |-> FALSE, data |-> 0,
   mimeType |-> "", usage |-> meta]

\* res.json({base64Image, mimeType, fileUrl}) or res.json({text}) with the usage headers
respondOk(p, r, d, mimeType, isHit, meta) ==
  [p |-> p, route |-> r, status |-> 200, error |-> "", hit |-> isHit, data |-> d,
   mimeType |-> mimeType, usage |-> meta]

\* res.status(500).json({error})
respondFailed(p, r, e) ==
  [p |-> p, route |-> r, status |-> 500, error |-> e, hit |-> FALSE, data |-> 0,
   mimeType |-> "", usage |-> NoMeta]

\* -------------------------------------------------------------- file cache
\* Buffer.from(base64, 'base64'): payloads 2b-1 (canonical) and 2b (a lenient
\* spelling, e.g. unpadded) decode to the same bytes b
B64Decode(d) == (d + 1) \div 2
\* buffer.toString('base64'): always the canonical spelling
B64Encode(b) == 2 * b - 1

\* The mimeType tryReadCache attaches to whatever it reads
CachedMimeType == "image/png"

tryReadCache(c, hash) == IF c[hash] # NoEntry THEN B64Encode(c[hash]) ELSE 0

writeCacheEveryKey(c, hash, base64) == [k \in DOMAIN c |-> B64Decode(base64)]
writeCache(c, hash, base64) == [c EXCEPT ![hash] = B64Decode(base64)]

\* ------------------------------------------------------ concurrency limiter
GateFullOff == inflight > MAX_CONCURRENCY
GateFull == inflight >= MAX_CONCURRENCY

\* Handlers whose remote call (ai.models.generateContent) is in flight
Calling == {p \in Handlers : pc[p] = "calling"}
\* ... and those whose call was issued through limitConcurrency
Gated == {p \in Calling : route[p] = "generateImage"}

\* History of image admissions, per window
Admit(u) ==
  IF winAdmits.start = u.minuteWindowStart
  THEN [winAdmits EXCEPT !.n = @ + 1, !.first = IF winAdmits.n = 0 THEN now ELSE @]
  ELSE [start |-> u.minuteWindowStart, n |-> 1, first |-> now,
        afterFull |-> imagesThisMinute = imagesPerMinute]

Selections == 1..MaxSelections

\* The keys of CDN_URLS
Srcs == {"jspdf", "html2canvas", "JSZip"}

\* ------------------------------------------------------------------- Init
Init ==
  /\ now = 0
  /\ dailyWindowStart = 0
  /\ requestsToday = 0
  /\ minuteWindowStart = 0
  /\ imagesThisMinute = 0
  /\ inflight = 0
  /\ cache = [k \in Keys |-> NoEntry]
  /\ pc = [p \in Handlers |-> "idle"]
  /\ route = [p \in Handlers |-> "text"]
  /\ key = [p \in Handlers |-> 1]
  /\ out = NoResp
  /\ storedMime = [k \in Keys |-> ""]
  /\ winAdmits = [start |-> 0, n |-> 0, first |-> 0, afterFull |-> FALSE]
  /\ refImages = <<>>
  /\ converting = [s \in Selections |-> 0]
  /\ loadedScripts = [src \in Srcs |-> "absent"]
  /\ scriptTags = [src \in Srcs |-> 0]
  /\ scriptRan = [src \in Srcs |-> FALSE]
  /\ awaiting = [src \in Srcs |-> 0]
  /\ activeScene = NoScene
  /\ storyboard = <<>>
  /\ isLoading = FALSE
  /\ editCall = NoCall
  /\ genCall = NoCall
  /\ updates = <<>>
  /\ sceneClock = 0

\* ------------------------------------------------------------ the handlers
\* part.inlineData.mimeType of an image part
MimeTypes == {"image/png", "image/jpeg"}

\* What the remote call of handler p may settle with: an image part carrying
\* inline data d, a response without inline data (or a text reply), or a
\* rejection with an HTTP-like status.
Outcomes ==
  [kind : {"image"}, data : Data, mimeType : MimeTypes, status : {200}]
    \cup [kind : {"empty"}, data : {0}, mimeType : {""}, status : {200}]
    \cup [kind : {"throw"}, data : {0}, mimeType : {""}, status : {429, 503}]

\* The outcomes in which an image part is a PNG
PngOutcomes == {o \in Outcomes : o.mimeType \in {"", "image/png"}}

\* One outcome of each kind the handlers tell apart by other than the status
FewOutcomes == {o \in PngOutcomes : o.data <= 1 /\ o.status # 429}

FailedError(r) ==
  CASE r = "generateImage" -> "image_failed"
    [] r = "editImage" -> "edit_failed"
    [] r = "characterPortrait" -> "portrait_failed"
    [] r = "text" -> "text_failed"
    [] r = "createProfile" -> "profile_failed"

\* The part of a handler that every endpoint shares: trackUsage first; when it
\* throws, the catch block answers through respondRateLimited.
Rejected(p, r, tr, t3) ==
  /\ SetUsage(tr.u)
  /\ now' = t3
  /\ out' = respondRateLimited(p, r, tr.err, tr.meta)
  /\ UNCHANGED <<inflight, cache, pc, route, key, storedMime, winAdmits, clientVars>>

\* The remote call is issued directly (no limiter) and the handler suspends.
CallRemote(p, r, tr, isImage) ==
  /\ SetUsage(tr.u)
  /\ pc' = [pc EXCEPT ![p] = "calling"]
  /\ route' = [route EXCEPT ![p] = r]
  /\ out' = NoResp
  /\ winAdmits' = IF isImage THEN Admit(tr.u) ELSE winAdmits
  /\ UNCHANGED <<now, inflight, cache, key, storedMime, clientVars>>

\* POST /api/text with body {prompt}; the prompt is handed to the remote call
\* as it is
Text(p, prompt) ==
  /\ pc[p] = "idle"
  /\ \E t2 \in Reads(now) : \E t3 \in Reads(t2) :
       LET tr == trackUsage(Usage, "text", now, t2, t3)
       IN IF tr.err # "" THEN Rejected(p, "text", tr, t3)
          ELSE CallRemote(p, "text", tr, FALSE)

\* POST /api/createProfile
CreateProfile(p) ==
  /\ pc[p] = "idle"
  /\ \E t2 \in Reads(now) : \E t3 \in Reads(t2) :
       LET tr == trackUsage(Usage, "text", now, t2, t3)
       IN IF tr.err # "" THEN Rejected(p, "createProfile", tr, t3)
          ELSE CallRemote(p, "createProfile", tr, FALSE)

\* POST /api/characterPortrait
CharacterPortrait(p) ==
  /\ pc[p] = "idle"
  /\ \E t2 \in Reads(now) : \E t3 \in Reads(t2) :
       LET tr == trackUsage(Usage, "image", now, t2, t3)
       IN IF tr.err # "" THEN Rejected(p, "characterPortrait", tr, t3)
          ELSE CallRemote(p, "characterPortrait", tr, TRUE)

\* POST /api/editImage; srcOk = FALSE is a sourceUrl whose file cannot be
\* read: fs.readFileSync throws and the catch block answers 500.
EditImage(p, srcOk) ==
  /\ pc[p] = "idle"
  /\ \E t2 \in Reads(now) : \E t3 \in Reads(t2) :
       LET tr == trackUsage(Usage, "image", now, t2, t3)
       IN IF tr.err # "" THEN Rejected(p, "editImage", tr, t3)
          ELSE IF srcOk THEN CallRemote(p, "editImage", tr, TRUE)
          ELSE /\ SetUsage(tr.u)
               /\ out' = respondFailed(p, "editImage", "edit_failed")
               /\ winAdmits' = Admit(tr.u)
               /\ UNCHANGED <<now, inflight, cache, pc, route, key, storedMime, clientVars>>

\* limitConcurrency up to its first await: take a slot and issue the call, or
\* start polling.
EnterGate(p) ==
  IF GateFull
  THEN /\ pc' = [pc EXCEPT ![p] = "waiting"]
       /\ inflight' = inflight
  ELSE /\ pc' = [pc EXCEPT ![p] = "calling"]
       /\ inflight' = inflight + 1

\* POST /api/generateImage for a request whose input hashes to k
GenerateImage(p, k) ==
  /\ pc[p] = "idle"
  /\ \E t2 \in Reads(now) : \E t3 \in Reads(t2) :
       LET tr == trackUsage(Usage, "image", now, t2, t3)
           cached == tryReadCache(cache, k)
           snap == usageSnapshot(tr.u, t2, t3)
       IN IF tr.err # "" THEN Rejected(p, "generateImage", tr, t3)
          ELSE IF cached # 0
          THEN /\ SetUsage(snap.u)
               /\ now' = t3
               /\ out' = respondOk(p, "generateImage", cached, CachedMimeType, TRUE,
                                   snap.meta)
               /\ winAdmits' = Admit(tr.u)
               /\ UNCHANGED <<inflight, cache, pc, route, key, storedMime, clientVars>>
          ELSE /\ SetUsage(tr.u)
               /\ EnterGate(p)
               /\ route' = [route EXCEPT ![p] = "generateImage"]
               /\ key' = [key EXCEPT ![p] = k]
               /\ out' = NoResp
               /\ winAdmits' = Admit(tr.u)
               /\ UNCHANGED <<now, cache, storedMime, clientVars>>

\* The 50 ms timer of limitConcurrency fires: re-test the loop condition.
Poll(p) ==
  /\ pc[p] = "waiting"
  /\ ~GateFull
  /\ pc' = [pc EXCEPT ![p] = "calling"]
  /\ inflight' = inflight + 1
  /\ out' = NoResp
  /\ UNCHANGED <<now, dailyWindowStart, requestsToday, minuteWindowStart,
                 imagesThisMinute, cache, route, key, storedMime, winAdmits, clientVars>>

\* try { return await fn(); } finally { inflight -= 1; } of limitConcurrency,
\* when fn settles with an outcome of the given kind
ReleaseOnSuccess(n, kind) == IF kind = "throw" THEN n ELSE n - 1
ReleaseNever(n, kind) == n
Release(n, kind) == n - 1

\* What the failure paths (the catch block, or the 500 sent when the reply has
\* no image part) do to the usage counters: nothing
onRemoteFailureRefund(u) == [u EXCEPT !.requestsToday = @ - 1]
onRemoteFailure(u) == u

\* The remote call of handler p settles with outcome o and the handler runs to
\* its response.
RemoteReturn(p, o) ==
  /\ pc[p] = "calling"
  /\ route[p] \in TextRoutes => o.kind # "image"
  /\ pc' = [pc EXCEPT ![p] = "idle"]
  /\ route' = [route EXCEPT ![p] = "text"]
  /\ key' = [key EXCEPT ![p] = 1]
  /\ inflight' = IF route[p] = "generateImage" THEN Release(inflight, o.kind) ELSE inflight
  /\ \E t2 \in Reads(now) :
       LET snap == usageSnapshot(Usage, now, t2)
       IN IF o.kind = "throw"
          THEN IF o.status = 429
               THEN /\ SetUsage(snap.u)
                    /\ now' = t2
                    /\ out' = respondRateLimited(p, route[p], "remote_rate_limited", snap.meta)
                    /\ UNCHANGED <<cache, storedMime>>
               ELSE /\ SetUsage(onRemoteFailure(Usage))
                    /\ out' = respondFailed(p, route[p], FailedError(route[p]))
                    /\ UNCHANGED <<now, cache, storedMime>>
          ELSE IF route[p] \in ImageRoutes /\ o.kind = "empty"
          THEN /\ SetUsage(onRemoteFailure(Usage))
               /\ out' = respondFailed(p, route[p], FailedError(route[p]))
               /\ UNCHANGED <<now, cache, storedMime>>
          ELSE /\ SetUsage(snap.u)
               /\ now' = t2
               /\ out' = respondOk(p, route[p], o.data, o.mimeType, FALSE, snap.meta)
               /\ cache' = IF route[p] = "generateImage"
                           THEN writeCache(cache, key[p], o.data)
                           ELSE cache
               /\ storedMime' = IF route[p] = "generateImage"
                                THEN [storedMime EXCEPT ![key[p]] = o.mimeType]
                                ELSE storedMime
  /\ UNCHANGED <<winAdmits, clientVars>>

\* GET /api/usage
GetUsage ==
  \E t2 \in Reads(now) :
    LET snap == usageSnapshot(Usage, now, t2)
    IN /\ SetUsage(snap.u)
       /\ now' = t2
       /\ out' = respondOk(0, "usage", 0, "", FALSE, snap.meta)
       /\ UNCHANGED <<inflight, cache, pc, route, key, storedMime, winAdmits, clientVars>>

\* Time passes between two events.
Tick ==
  /\ \E t \in Instants : t > now /\ now' = t
  /\ out' = NoResp
  /\ UNCHANGED <<dailyWindowStart, requestsToday, minuteWindowStart, imagesThisMinute,
                 inflight, cache, pc, route, key, storedMime, winAdmits, clientVars>>

TickFine ==
  /\ \E t \in FineInstants : t > now /\ now' = t
  /\ out' = NoResp
  /\ UNCHANGED <<dailyWindowStart, requestsToday, minuteWindowStart, imagesThisMinute,
                 inflight, cache, pc, route, key, storedMime, winAdmits, clientVars>>

\* ------------------------------------------------- BlueprintPage (client)
\* Array.from(files).slice(0, 3 - refImages.length) for n chosen files
Slice(n, len) ==
  IF MaxRefImages - len >= 0
  THEN (IF n < MaxRefImages - len THEN n ELSE MaxRefImages - len)
  ELSE (IF n + (MaxRefImages - len) > 0 THEN n + (MaxRefImages - len) ELSE 0)

\* handleFileChange up to its await: the user picks n files in the dialog (the
\* input is disabled once refImages holds 3); run s takes the first
\* 3 - refImages.length of them and starts converting them.
HandleFileChange(s, n) ==
  /\ Len(refImages) < MaxRefImages
  /\ converting[s] = 0
  /\ converting' = [converting EXCEPT ![s] = Slice(n, Len(refImages))]
  /\ UNCHANGED <<refImages, serverVars, scriptVars, studioVars>>

\* Promise.all settles for run s: setRefImages(prev => [...prev, ...newImages]),
\* or the catch block when a FileReader failed.
ConversionsSettle(s, ok) ==
  /\ converting[s] > 0
  /\ refImages' = IF ok THEN refImages \o [i \in 1..converting[s] |-> s] ELSE refImages
  /\ converting' = [converting EXCEPT ![s] = 0]
  /\ UNCHANGED <<serverVars, scriptVars, studioVars>>

\* ------------------------------------------------- loadScript (client)
\* document.querySelector(`script[src="${src}"]`)
ScriptInDocument(tags) == tags > 0

\* loadScript(src): with no memoized promise it makes one, which resolves at
\* once if the document already holds a script element for src and otherwise
\* appends a new element and stays pending; the caller then awaits the
\* memoized promise (a settled one lets it go on at once).
LoadScript(src) ==
  /\ awaiting[src] < MaxCallers
  /\ IF loadedScripts[src] = "absent"
     THEN IF ScriptInDocument(scriptTags[src])
          THEN /\ loadedScripts' = [loadedScripts EXCEPT ![src] = "resolved"]
               /\ UNCHANGED <<scriptTags, awaiting>>
          ELSE /\ loadedScripts' = [loadedScripts EXCEPT ![src] = "pending"]
               /\ scriptTags' = [scriptTags EXCEPT ![src] = @ + 1]
               /\ awaiting' = [awaiting EXCEPT ![src] = @ + 1]
     ELSE /\ awaiting' = [awaiting EXCEPT ![src] =
                            IF loadedScripts[src] = "pending" THEN @ + 1 ELSE @]
          /\ UNCHANGED <<loadedScripts, scriptTags>>
  /\ UNCHANGED <<scriptRan, serverVars, blueprintVars, studioVars>>

\* script.onload: resolve(); every awaiting caller goes on
ScriptOnload(src) ==
  /\ loadedScripts[src] = "pending"
  /\ loadedScripts' = [loadedScripts EXCEPT ![src] = "resolved"]
  /\ scriptRan' = [scriptRan EXCEPT ![src] = TRUE]
  /\ awaiting' = [awaiting EXCEPT ![src] = 0]
  /\ UNCHANGED <<scriptTags, serverVars, blueprintVars, studioVars>>

\* script.onerror: delete loadedScripts[src]; reject(...); every awaiting
\* caller gets the rejection.  The element stays in the document.
ScriptOnerror(src) ==
  /\ loadedScripts[src] = "pending"
  /\ loadedScripts' = [loadedScripts EXCEPT ![src] = "absent"]
  /\ awaiting' = [awaiting EXCEPT ![src] = 0]
  /\ UNCHANGED <<scriptTags, scriptRan, serverVars, blueprintVars, studioVars>>

\* ------------------------------------- storyboard and editor (client)
\* storyboard.find(sbScene => sbScene.id === id) over the storyboard sb of a
\* closure: the index of the first scene with that id, 0 if there is none
FindScene(sb, id) ==
  IF \E i \in DOMAIN sb : sb[i].id = id
  THEN CHOOSE i \in DOMAIN sb : sb[i].id = id /\ \A j \in 1..(i - 1) : sb[j].id # id
  ELSE 0

\* [...versions.map(v => ({...v, isCurrent: false})), newVersion]
WithNewVersion(versions, scene) ==
  [i \in DOMAIN versions |-> [versions[i] EXCEPT !.isCurrent = FALSE]]
    \o << [id |-> Len(versions) + 1, image |-> scene.image,
           prompt |-> scene.editHistory[Len(scene.editHistory)], isCurrent |-> TRUE] >>

\* calls that will still run updateActiveScene's second half
Outstanding ==
  Len(updates) + (IF editCall.on THEN 1 ELSE 0) + (IF genCall.on THEN 1 ELSE 0)

\* the versions the storyboard holds for scene id
VersionsOf(id) ==
  IF FindScene(storyboard, id) = 0 THEN 0
  ELSE Len(storyboard[FindScene(storyboard, id)].versions)

\* updateActiveScene(scene) up to its await, called through a closure whose
\* storyboard is sb: the state after setActiveScene(scene)
updateActiveSceneCalled(scene, sb) ==
  /\ activeScene' = scene
  /\ updates' = Append(updates, [scene |-> scene, sb |-> sb])

\* updateActiveScene after dbService.setActiveScene has resolved: the scene
\* is looked up in the closure's storyboard, a version is appended to what
\* the closure holds, and the result replaces the scene in the latest state.
UpdateActiveSceneResumes ==
  /\ updates # <<>>
  /\ LET u == Head(updates)
         at == FindScene(u.sb, u.scene.id)
     IN  storyboard' =
           IF u.scene # NoScene /\ at # 0
           THEN [i \in DOMAIN storyboard |->
                   IF storyboard[i].id = u.scene.id
                   THEN [u.sb[at] EXCEPT !.versions = WithNewVersion(@, u.scene)]
                   ELSE storyboard[i]]
           ELSE storyboard
  /\ updates' = Tail(updates)
  /\ UNCHANGED <<activeScene, isLoading, editCall, genCall, sceneClock,
                 serverVars, blueprintVars, scriptVars>>

\* addSceneToStoryboard(scene) through a closure whose storyboard is sb: the
\* storyboard state after setStoryboard(prev => [...prev, newStoryboardScene])
addSceneToStoryboard(scene, sb) ==
  IF FindScene(sb, scene.id) # 0 THEN storyboard
  ELSE Append(storyboard,
              [id |-> scene.id, sceneNumber |-> Len(sb) + 1,
               versions |-> << [id |-> 1, image |-> scene.image,
                                prompt |-> 0, isCurrent |-> TRUE] >>])

\* GeneratorPage.handleGenerate up to its await (the button is disabled while
\* isLoading)
HandleGenerate ==
  /\ ~genCall.on
  /\ sceneClock < MaxScenes
  /\ Outstanding < MaxPending
  /\ genCall' = [on |-> TRUE, scene |-> NoScene, sb |-> storyboard]
  /\ UNCHANGED <<activeScene, storyboard, isLoading, editCall, updates, sceneClock,
                 serverVars, blueprintVars, scriptVars>>

\* generateImageFromText settles: on success the new scene becomes the active
\* scene and is added to the storyboard.
GenerateSettles(img, ok) ==
  /\ genCall.on
  /\ genCall' = NoCall
  /\ IF ok
     THEN LET newScene == [id |-> sceneClock + 1, image |-> img,
                           editHistory |-> <<0>>, imageHistory |-> <<img>>]
          IN  /\ updateActiveSceneCalled(newScene, genCall.sb)
              /\ storyboard' = addSceneToStoryboard(newScene, genCall.sb)
              /\ sceneClock' = sceneClock + 1
     ELSE UNCHANGED <<activeScene, storyboard, updates, sceneClock>>
  /\ UNCHANGED <<isLoading, editCall, serverVars, blueprintVars, scriptVars>>

\* GeneratorPage.handleNewScene: updateActiveScene(null)
HandleNewScene ==
  /\ activeScene # NoScene
  /\ Outstanding < MaxPending
  /\ updateActiveSceneCalled(NoScene, storyboard)
  /\ UNCHANGED <<storyboard, isLoading, editCall, genCall, sceneClock,
                 serverVars, blueprintVars, scriptVars>>

\* EditorPage.handleApplyChanges up to its await (the button and the input
\* are disabled while isLoading)
HandleApplyChanges ==
  /\ activeScene # NoScene
  /\ ~isLoading
  /\ Len(activeScene.editHistory) < MaxEdits
  /\ Outstanding < MaxPending
  /\ VersionsOf(activeScene.id) + Outstanding < MaxVersions
  /\ isLoading' = TRUE
  /\ editCall' = [on |-> TRUE, scene |-> activeScene, sb |-> storyboard]
  /\ UNCHANGED <<activeScene, storyboard, genCall, updates, sceneClock,
                 serverVars, blueprintVars, scriptVars>>

\* editImage settles: on success the edit and the image are appended to the
\* histories of the scene the handler was invoked with; finally isLoading is
\* cleared.
EditSettles(img, ok) ==
  /\ editCall.on
  /\ editCall' = NoCall
  /\ isLoading' = FALSE
  /\ IF ok
     THEN LET a == editCall.scene
              updatedScene ==
                [a EXCEPT !.image = img,
                          !.editHistory = Append(a.editHistory, Len(a.editHistory)),
                          !.imageHistory = Append(a.imageHistory, img)]
          IN  updateActiveSceneCalled(updatedScene, editCall.sb)
     ELSE UNCHANGED <<activeScene, updates>>
  /\ UNCHANGED <<storyboard, genCall, sceneClock, serverVars, blueprintVars, scriptVars>>

\* history.slice(0, index + 1)
SliceTo(history, index) == SubSeq(history, 1, index + 1)

\* a guard that lets a revert through while an edit is loading
RevertRefusedIdleOnly(index) ==
  \/ activeScene = NoScene
  \/ index < 0
  \/ index >= Len(activeScene.imageHistory)

\* the guard of handleRevertTo
RevertRefused(index) ==
  \/ activeScene = NoScene
  \/ isLoading
  \/ index < 0
  \/ index >= Len(activeScene.imageHistory)

\* EditorPage.handleRevertTo(index)
HandleRevertTo(index) ==
  /\ Outstanding < MaxPending
  /\ VersionsOf(activeScene.id) + Outstanding < MaxVersions
  /\ IF RevertRefused(index)
     THEN UNCHANGED <<activeScene, updates>>
     ELSE LET newImageHistory == SliceTo(activeScene.imageHistory, index)
              newEditHistory == SliceTo(activeScene.editHistory, index)
              updatedScene ==
                [activeScene EXCEPT !.image = newImageHistory[index + 1],
                                    !.editHistory = newEditHistory,
                                    !.imageHistory = newImageHistory]
          IN  updateActiveSceneCalled(updatedScene, storyboard)
  /\ UNCHANGED <<storyboard, isLoading, editCall, genCall, sceneClock,
                 serverVars, blueprintVars, scriptVars>>

\* ---------------------------------------------------------- specifications
\* Spec: MaxHandlers concurrent clients on every endpoint, at one instant.
Next ==
  \/ \E p \in Handlers :
       /\ requestsToday < MaxRequests
       /\ \/ \E prompt \in TextPrompts : Text(p, prompt)
          \/ CreateProfile(p)
          \/ CharacterPortrait(p)
          \/ \E srcOk \in BOOLEAN : EditImage(p, srcOk)
          \/ \E b \in Bodies : GenerateImage(p, stableHash(JSONstringify(b)))
  \/ \E p \in Handlers : Poll(p)
  \/ \E p \in Handlers : \E o \in PngOutcomes : RemoteReturn(p, o)
  \/ GetUsage

Spec == Init /\ [][Next]_vars

\* QuotaSpec: one client that sends its requests one after another, while the
\* clock runs through the first minute and the first day.

NextQuota ==
  \/ Tick
  \/ GetUsage
  \/ \E prompt \in TextPrompts : Text(1, prompt)
  \/ GenerateImage(1, 1)
  \/ \E o \in FewOutcomes : RemoteReturn(1, o)

QuotaSpec == Init /\ [][NextQuota]_vars

\* SnapSpec: one client sending a few requests and reading /api/usage at any
\* of the instants of FineInstants.
NextSnap ==
  \/ TickFine
  \/ GetUsage
  \/ requestsToday < MaxRequests
     /\ ((\E prompt \in TextPrompts : Text(1, prompt)) \/ GenerateImage(1, 1))
  \/ \E o \in FewOutcomes : RemoteReturn(1, o)

SnapSpec == Init /\ [][NextSnap]_vars

\* GateSpec: MaxHandlers concurrent callers of /api/generateImage.  Every
\* remote call eventually settles and a poll timer that keeps finding a free
\* slot eventually takes it.
NextGate ==
  \/ \E p \in Handlers : requestsToday < MaxRequests
                          /\ \E b \in Bodies : GenerateImage(p, stableHash(JSONstringify(b)))
  \/ \E p \in Handlers : Poll(p)
  \/ \E p \in Handlers : \E o \in FewOutcomes : RemoteReturn(p, o)

GateSpec ==
  /\ Init
  /\ [][NextGate]_vars
  /\ \A p \in Handlers : WF_vars(Poll(p))
  /\ \A p \in Handlers : WF_vars(\E o \in FewOutcomes : RemoteReturn(p, o))

\* CacheSpec: MaxHandlers concurrent callers of /api/generateImage and a remote
\* service that may return its image in any of MimeTypes.
NextCache ==
  \/ \E p \in Handlers : requestsToday < MaxRequests
                          /\ \E b \in Bodies : GenerateImage(p, stableHash(JSONstringify(b)))
  \/ \E p \in Handlers : Poll(p)
  \/ \E p \in Handlers : \E o \in Outcomes : RemoteReturn(p, o)

CacheSpec == Init /\ [][NextCache]_vars

\* BlueprintSpec: a user choosing reference images on the blueprint page.
NextBlueprint ==
  \/ \E s \in Selections : \E n \in 1..MaxFiles : HandleFileChange(s, n)
  \/ \E s \in Selections : \E ok \in BOOLEAN : ConversionsSettle(s, ok)

BlueprintSpec == Init /\ [][NextBlueprint]_vars

\* ScriptSpec: the export pages loading their libraries from the CDN.
NextScript ==
  \/ \E src \in Srcs : LoadScript(src)
  \/ \E src \in Srcs : ScriptOnload(src)
  \/ \E src \in Srcs : ScriptOnerror(src)

ScriptSpec == Init /\ [][NextScript]_vars

\* StudioSpec: a user generating scenes, editing the active one and going
\* back in its history.
NextStudio ==
  \/ HandleGenerate
  \/ \E img \in Images : \E ok \in BOOLEAN : GenerateSettles(img, ok)
  \/ HandleNewScene
  \/ HandleApplyChanges
  \/ \E img \in Images : \E ok \in BOOLEAN : EditSettles(img, ok)
  \/ \E index \in (-1)..MaxEdits : HandleRevertTo(index)
  \/ UpdateActiveSceneResumes

StudioSpec == Init /\ [][NextStudio]_vars

\* StallSpec: as GateSpec, but the remote service owes no answer: only the
\* server's own timers are fair.  The handlers set no timer on a remote call,
\* so nothing but the remote's answer ends one.
StallSpec ==
  /\ Init
  /\ [][NextGate]_vars
  /\ \A p \in Handlers : WF_vars(Poll(p))

\* ------------------------------------------------------------- properties
QuotaErrors == {"daily_limit_exceeded", "minute_image_limit_exceeded"}

\* The step is the first run of handler p on a new request: an idle handler
\* either suspends (on the limiter or on its remote call) or answers at once
\* (a rejection, a cache hit, a failure before the remote call).
AnyRequest(p) ==
  /\ pc[p] = "idle"
  /\ pc'[p] # "idle" \/ (out'.p = p /\ out'.status # 0)

\* ... on a request to an endpoint that calls trackUsage('image')
ImageRequest(p) ==
  /\ AnyRequest(p)
  /\ (IF pc'[p] # "idle" THEN route'[p] ELSE out'.route) \in ImageRoutes

\* The step answered a request with a rejection thrown by trackUsage
QuotaRejection == out'.status = 429 /\ out'.error \in QuotaErrors

\* C1: at most imagesPerMinute image requests are admitted in one window of
\* the minute counter, and an image request that arrives in a window that
\* already admitted that many is answered 429 with a quota error, starts no
\* remote call and is not admitted.
C1_MinuteQuota ==
  /\ [](winAdmits.n <= imagesPerMinute)
  /\ [][\A p \in Handlers :
          (/\ ImageRequest(p)
           /\ winAdmits.n = imagesPerMinute
           /\ now - winAdmits.start < MINUTE_MS)
          => (/\ QuotaRejection
              /\ out'.p = p
              /\ Calling' = Calling
              /\ pc' = pc
              /\ winAdmits' = winAdmits)]_vars

C1_Witness ==
  /\ out.error = "minute_image_limit_exceeded"
  /\ winAdmits.n = imagesPerMinute
  /\ now - winAdmits.start < MINUTE_MS
  /\ Calling = {}

\* C2: a generateImage request served from the cache leaves requestsToday and
\* imagesThisMinute as they were.
C2_CacheHitLeavesUsage ==
  [][out'.hit => (requestsToday' = requestsToday /\ imagesThisMinute' = imagesThisMinute)]_vars

\* C3: a generateImage request whose key has a cache entry is answered with
\* the stored artifact, takes no slot and starts no remote call.
C3_CachedKeyIsServed ==
  [][\A p \in Handlers : \A k \in Keys :
       (GenerateImage(p, k) /\ cache[k] # NoEntry)
       => (/\ out'.hit
           /\ out'.data = B64Encode(cache[k])
           /\ inflight' = inflight
           /\ Calling' = Calling)]_vars

\* C4: at most MAX_CONCURRENCY remote calls issued through limitConcurrency
\* are in flight at once.
C4_GateCeiling == Cardinality(Gated) <= MAX_CONCURRENCY

C4_Witness ==
  /\ Cardinality(Gated) = MAX_CONCURRENCY
  /\ \E p \in Handlers : pc[p] = "waiting"

\* C5: at most MAX_CONCURRENCY remote calls, of any endpoint, are in flight
\* at once.
C5_AllRemoteCallsGated == Cardinality(Calling) <= MAX_CONCURRENCY

\* C6: every caller waiting in limitConcurrency eventually gets a slot, and
\* every request that reached the limiter eventually completes.
C6_WaitersAcquire ==
  \A p \in Handlers :
    /\ (pc[p] = "waiting") ~> (pc[p] = "calling")
    /\ (pc[p] # "idle") ~> (pc[p] = "idle")

C6_Witness ==
  /\ requestsToday = MaxRequests
  /\ Cardinality({p \in Handlers : pc[p] = "waiting"}) >= 1
  /\ inflight = MAX_CONCURRENCY

\* C7: inflight counts exactly the gated calls now running: each slot taken is
\* given back once, on success and on failure, so inflight is never negative
\* and is 0 when no gated call runs.
C7_SlotsBalanced == inflight = Cardinality(Gated) /\ inflight >= 0

C7_Witness ==
  /\ out.route = "generateImage"
  /\ out.error = "remote_rate_limited"
  /\ inflight = 0
  /\ requestsToday >= 2

\* C8 as claimed: a request that arrives when a window has expired is admitted.
C8_ExpiredWindowAdmits ==
  [][\A p \in Handlers :
       /\ (ImageRequest(p) /\ now - minuteWindowStart >= MINUTE_MS)
          => (minuteWindowStart' = now /\ out'.status # 429)
       /\ (AnyRequest(p) /\ now - dailyWindowStart >= DAY_MS)
          => (dailyWindowStart' = now /\ out'.status # 429)]_vars

\* C8 as amended: a request that arrives when a window has expired restarts
\* that window at the arrival instant and is checked against count 0, so it is
\* never rejected for that window's limit; the window's count afterwards is 1
\* if the request was admitted and 0 if the other window's limit rejected it.
C8_RolloverBeforeCheck ==
  [][\A p \in Handlers :
       /\ (ImageRequest(p) /\ now - minuteWindowStart >= MINUTE_MS)
          => (/\ minuteWindowStart' = now
              /\ out'.error # "minute_image_limit_exceeded"
              /\ imagesThisMinute' = IF QuotaRejection THEN 0 ELSE 1)
       /\ (AnyRequest(p) /\ now - dailyWindowStart >= DAY_MS)
          => (/\ dailyWindowStart' = now
              /\ out'.error # "daily_limit_exceeded"
              /\ requestsToday' = IF QuotaRejection THEN 0 ELSE 1)]_vars

C8_Witness ==
  /\ winAdmits.afterFull
  /\ winAdmits.n = 1
  /\ winAdmits.start = now
  /\ minuteWindowStart = now
  /\ imagesThisMinute = 1
  /\ pc[1] = "calling"

\* C9 as claimed: a request rejected by the quota check increments neither
\* counter and starts no remote call; rejected for the per-minute limit it
\* leaves requestsToday unchanged, rejected for the daily limit it leaves
\* imagesThisMinute unchanged.
C9_RejectionChangesNothing ==
  [][QuotaRejection
     => (/\ requestsToday' <= requestsToday
         /\ imagesThisMinute' <= imagesThisMinute
         /\ out'.error = "minute_image_limit_exceeded" => requestsToday' = requestsToday
         /\ out'.error = "daily_limit_exceeded" => imagesThisMinute' = imagesThisMinute
         /\ Calling' = Calling)]_vars

\* C9 as amended: a request rejected by the quota check increments neither
\* counter and starts no remote call; a counter changes only by being reset to
\* 0 when its window has run out, and the rejection carries the counters as
\* they are after the request.
C9_RejectionIncrementsNothing ==
  [][QuotaRejection
     => (/\ \/ requestsToday' = requestsToday
            \/ (requestsToday' = 0 /\ dailyWindowStart' - dailyWindowStart >= DAY_MS)
         /\ \/ imagesThisMinute' = imagesThisMinute
            \/ (imagesThisMinute' = 0 /\ minuteWindowStart' - minuteWindowStart >= MINUTE_MS)
         /\ Calling' = Calling
         /\ <<pc, inflight, cache, winAdmits>>' = <<pc, inflight, cache, winAdmits>>
         /\ out'.usage.requestsToday = requestsToday'
         /\ out'.usage.imagesThisMinute = imagesThisMinute')]_vars

C9_Witness ==
  /\ out.error = "daily_limit_exceeded"
  /\ out.route = "generateImage"
  /\ requestsToday = requestsPerDay
  /\ imagesThisMinute = 0
  /\ minuteWindowStart = now
  /\ now > 0

\* C10: the two increments of an admitted image request are never seen apart:
\* in every state between two handler runs, and in every snapshot sent, the
\* image count of a minute window that began within the current day window is
\* covered by the request count.
C10_IncrementsTogether ==
  /\ dailyWindowStart <= minuteWindowStart => imagesThisMinute <= requestsToday
  /\ out.usage # NoMeta
     => (/\ out.usage.imagesThisMinute = imagesThisMinute
         /\ out.usage.requestsToday = requestsToday)

C10_Witness ==
  /\ out.route = "usage"
  /\ out.usage.imagesThisMinute = 2
  /\ out.usage.requestsToday = 3
  /\ Cardinality(Calling) = 3

\* C11 as claimed: an admitted text request adds 1 to requestsToday, leaves
\* imagesThisMinute as it was and is never rejected for the per-minute image
\* limit; an admitted image request adds 1 to both counters.
C11_AdmissionAddsOne ==
  [][\A p \in Handlers :
       /\ (AnyRequest(p) /\ ~ImageRequest(p))
          => out'.error # "minute_image_limit_exceeded"
       /\ (AnyRequest(p) /\ ~ImageRequest(p) /\ ~QuotaRejection)
          => (requestsToday' = requestsToday + 1 /\ imagesThisMinute' = imagesThisMinute)
       /\ (ImageRequest(p) /\ ~QuotaRejection)
          => (/\ requestsToday' = requestsToday + 1
              /\ imagesThisMinute' = imagesThisMinute + 1)]_vars

\* C11 as amended: an admitted text request counts 1 on requestsToday and 0 on
\* imagesThisMinute and is never rejected for the per-minute image limit; an
\* admitted image request counts 1 on both.  The count is added to the value
\* the counter has once an expired window has been rolled over: a window that
\* had run out when the request arrived restarts at the arrival instant with
\* the request's count, and a window that runs out while the handler is still
\* computing its response restarts at 0.
C11_AdmissionCountsOnce ==
  [][\A p \in Handlers :
       LET Counted(c, c2, w, w2, dur, inc) ==
             \/ w2 = w /\ c2 = c + inc
             \/ w2 = now /\ w2 - w >= dur /\ c2 = inc
             \/ w2 > now /\ w2 - w >= dur /\ c2 = 0
           Daily(inc) == Counted(requestsToday, requestsToday', dailyWindowStart,
                                 dailyWindowStart', DAY_MS, inc)
           Minute(inc) == Counted(imagesThisMinute, imagesThisMinute', minuteWindowStart,
                                  minuteWindowStart', MINUTE_MS, inc)
       IN /\ (AnyRequest(p) /\ ~ImageRequest(p))
             => out'.error # "minute_image_limit_exceeded"
          /\ (AnyRequest(p) /\ ~ImageRequest(p) /\ ~QuotaRejection)
             => (Daily(1) /\ Minute(0))
          /\ (ImageRequest(p) /\ ~QuotaRejection)
             => (Daily(1) /\ Minute(1))]_vars

C11_Witness ==
  /\ pc[1] = "calling"
  /\ route[1] = "text"
  /\ imagesThisMinute = imagesPerMinute
  /\ now - minuteWindowStart < MINUTE_MS
  /\ requestsToday > imagesPerMinute

\* C12: a rejection for the per-minute image limit carries a snapshot with
\* imagesThisMinute = imagesPerMinute and minuteResetInSeconds > 0, whatever
\* the clock returns to the check and to the snapshot computation.
C12_MinuteRejectionSnapshot ==
  out.error = "minute_image_limit_exceeded"
  => (/\ out.usage.imagesThisMinute = imagesPerMinute
      /\ out.usage.minuteResetInSeconds > 0)

\* C13: reading the usage snapshot (GET /api/usage) changes nothing: both
\* window starts and both counts are the same after the read as before it.
C13_SnapshotReadIsPure ==
  [][out'.route = "usage"
     => (/\ dailyWindowStart' = dailyWindowStart
         /\ requestsToday' = requestsToday
         /\ minuteWindowStart' = minuteWindowStart
         /\ imagesThisMinute' = imagesThisMinute)]_vars

\* C14: every snapshot reports the seconds until a window's reset as
\* max(0, ceil((duration - elapsed) / 1000)): 0 once the window has run out,
\* otherwise the least whole number of seconds that covers what remains; so
\* minuteResetInSeconds is within 0..60 and dailyResetInSeconds within 0..86400.
C14_ResetSeconds ==
  out.usage # NoMeta
  => LET Covers(s, dur, start) ==
           LET rem == dur - (now - start)
           IN /\ s \in 0..(dur \div 1000)
              /\ IF rem <= 0 THEN s = 0 ELSE 1000 * (s - 1) < rem /\ rem <= 1000 * s
     IN /\ Covers(out.usage.minuteResetInSeconds, MINUTE_MS, minuteWindowStart)
        /\ Covers(out.usage.dailyResetInSeconds, DAY_MS, dailyWindowStart)

C14_Witness ==
  /\ out.route = "usage"
  /\ now - minuteWindowStart = 58500
  /\ out.usage.minuteResetInSeconds = 2
  /\ out.usage.dailyResetInSeconds = 86342
  /\ requestsToday > 0

\* C15: an admitted request is counted once, at admission: the step that
\* admits it adds 1 to requestsToday, and no later step of the handler (taking
\* a slot, the remote call failing or returning no image, the response) adds
\* to a counter or takes from it; a counter then changes only by the roll-over
\* of its window.  The image count of the current window is the number of
\* image requests admitted in it, whatever became of their remote calls.
C15_CountedOnceNoRefund ==
  /\ [](winAdmits.start = minuteWindowStart => imagesThisMinute = winAdmits.n)
  /\ [][\A p \in Handlers :
          /\ (AnyRequest(p) /\ ~QuotaRejection /\ dailyWindowStart' = dailyWindowStart)
             => requestsToday' = requestsToday + 1
          /\ (pc[p] # "idle" /\ pc'[p] # pc[p])
             => (/\ \/ requestsToday' = requestsToday
                    \/ (requestsToday' = 0 /\ dailyWindowStart' - dailyWindowStart >= DAY_MS)
                 /\ \/ imagesThisMinute' = imagesThisMinute
                    \/ (/\ imagesThisMinute' = 0
                        /\ minuteWindowStart' - minuteWindowStart >= MINUTE_MS))]_vars

C15_Witness ==
  /\ out.status = 500
  /\ out.error = "image_failed"
  /\ requestsToday = 2
  /\ imagesThisMinute = 2
  /\ winAdmits.n = 2
  /\ \A p \in Handlers : pc[p] = "idle"

\* C16: a remote call that fails with a retryable classification (429 or
\* 5xx) fewer times than the retry budget is retried: when the first call of a
\* generateImage or editImage request fails so, the handler is still at work
\* on the request (the call is issued again) and has sent no error response.
C16_RetryableFailureRetried ==
  [][\A p \in Handlers : \A o \in PngOutcomes :
       (/\ route[p] \in {"generateImage", "editImage"}
        /\ o.kind = "throw"
        /\ RemoteReturn(p, o))
       => (pc'[p] = "calling" /\ out'.status = 0)]_vars

\* C17: a remote call that never produces a result is abandoned at its
\* deadline, so every request that issued a remote call eventually reaches a
\* terminal outcome and gives its slot back, even if the remote never answers.
C17_CallsEndByDeadline ==
  \A p \in Handlers : (pc[p] = "calling") ~> (pc[p] = "idle" /\ inflight < MAX_CONCURRENCY)

\* C18: a request that fails validation (its prompt is missing or too short)
\* is rejected with no side effects: it consumes no quota, writes no cache
\* entry, takes no slot and starts no remote call.
C18_InvalidRequestNoEffect ==
  [][\A p \in Handlers :
       Text(p, "")
       => (/\ out'.status \notin {0, 200}
           /\ requestsToday' = requestsToday
           /\ imagesThisMinute' = imagesThisMinute
           /\ cache' = cache
           /\ inflight' = inflight
           /\ Calling' = Calling)]_vars

\* C19: two generateImage requests with the same semantic input (the same
\* prompt and the same character) get the same cache key, in whatever order
\* the properties of the character object were written.
C19_KeyIgnoresPropertyOrder ==
  \A p, q \in Handlers : \A b1, b2 \in Bodies :
    (/\ b1.prompt = b2.prompt
     /\ pc[p] # "idle" /\ route[p] = "generateImage"
     /\ pc[q] # "idle" /\ route[q] = "generateImage"
     /\ key[p] = stableHash(JSONstringify(b1))
     /\ key[q] = stableHash(JSONstringify(b2)))
    => key[p] = key[q]

\* C20: a cache entry is immutable once written: the bytes stored under a key
\* never change afterwards, also when two requests with that key run
\* concurrently, both miss and both receive an artifact.
C20_CacheEntryImmutable ==
  [][\A k \in Keys : cache[k] # NoEntry => cache'[k] = cache[k]]_vars

\* C21: cache round trip: a request served from the cache entry of key K gets
\* the bytes and the mimeType that the call which wrote the entry sent to its
\* own caller.
C21_HitReturnsWhatWasStored ==
  [][\A p \in Handlers : \A b \in Bodies :
       LET k == stableHash(JSONstringify(b))
       IN (GenerateImage(p, k) /\ out'.hit)
          => (/\ B64Decode(out'.data) = cache[k]
              /\ out'.mimeType = storedMime[k])]_vars

\* C22: a 429 response that carries a usage snapshot comes only from the local
\* quota check: the request it answers made no remote call (it is answered in
\* the handler's first run, with a quota error) and a remote failure with
\* status 429 is never reported that way.
C22_Only429FromQuotaCheck ==
  [][(out'.status = 429 /\ out'.usage # NoMeta)
     => (/\ out'.error \in QuotaErrors
         /\ pc[out'.p] = "idle"
         /\ Calling' = Calling)]_vars

\* C23: every generateImage call goes through cache check, quota check,
\* waiting for a slot and executing in that order and enters no phase twice:
\* the cache is consulted before the quota, so a request whose key is cached is
\* never answered by the quota check; a handler moves only from idle to
\* waiting or calling, from waiting to calling and from calling to idle; and
\* the call ends with exactly one response, sent by the step that ends it.
C23_PhaseOrder ==
  [][\A p \in Handlers :
       /\ \A k \in Keys : (GenerateImage(p, k) /\ cache[k] # NoEntry) => ~QuotaRejection
       /\ pc'[p] # pc[p]
          => (/\ <<pc[p], pc'[p]>> \in {<<"idle", "waiting">>, <<"idle", "calling">>,
                                        <<"waiting", "calling">>, <<"calling", "idle">>}
              /\ pc'[p] = "idle" <=> (out'.p = p /\ out'.status # 0))]_vars

\* C25: in every reachable state, after any sequence of requests, usage reads
\* and clock advances, 0 <= imagesThisMinute <= imagesPerMinute and
\* 0 <= requestsToday <= requestsPerDay.
C25_CountersWithinLimits ==
  /\ imagesThisMinute \in 0..imagesPerMinute
  /\ requestsToday \in 0..requestsPerDay

C25_Witness ==
  /\ imagesThisMinute = imagesPerMinute
  /\ requestsToday = requestsPerDay
  /\ out.error = "daily_limit_exceeded"

\* C26: the cache entry of key K is written only by the step in which a
\* remote call made for a generateImage request with key K returns an
\* artifact, and holds that artifact's bytes; a remote call that throws or
\* returns no inline image data leaves the cache as it was and is answered
\* with an error.
C26_CacheWrittenOnSuccessOnly ==
  [][/\ \A k \in Keys :
          cache'[k] # cache[k]
          => \E p \in Handlers :
               /\ pc[p] = "calling" /\ route[p] = "generateImage" /\ key[p] = k
               /\ pc'[p] = "idle"
               /\ out'.p = p /\ out'.status = 200 /\ ~out'.hit
               /\ cache'[k] = B64Decode(out'.data)
     /\ \A p \in Handlers : \A o \in Outcomes :
          (RemoteReturn(p, o) /\ o.kind # "image")
          => (cache' = cache /\ out'.p = p /\ out'.status \in {429, 500})]_vars

C26_Witness ==
  /\ out.status = 500
  /\ out.error = "image_failed"
  /\ cache[1] # NoEntry
  /\ cache[2] = NoEntry
  /\ requestsToday = MaxRequests
  /\ \A p \in Handlers : pc[p] = "idle"

\* C28 as claimed: any interval of 60 seconds, wherever it starts, admits at
\* most imagesPerMinute image requests: a request admitted when the latest
\* imagesPerMinute admissions began at .first comes at least 60 s after .first.
C28_SlidingMinuteLimit ==
  [][\A p \in Handlers :
       (ImageRequest(p) /\ ~QuotaRejection /\ winAdmits.n = imagesPerMinute)
       => now - winAdmits.first >= MINUTE_MS]_vars

\* C28 as amended: the limit holds per counting window, not per interval: the
\* image requests admitted in one window number at most imagesPerMinute and
\* all lie within the 60 s after its start, and the next window starts at
\* least 60 s after this one's start; so an interval of 60 s meets at most two
\* windows and may admit up to twice imagesPerMinute (a full window at its
\* end, then a full window at the start of the next).
C28_FixedWindowLimit ==
  /\ [](/\ winAdmits.n <= imagesPerMinute
        /\ winAdmits.n > 0 => /\ winAdmits.start <= winAdmits.first
                              /\ winAdmits.first - winAdmits.start < MINUTE_MS)
  /\ [][/\ minuteWindowStart' # minuteWindowStart
           => minuteWindowStart' - minuteWindowStart >= MINUTE_MS
        /\ winAdmits'.start # winAdmits.start
           => winAdmits'.start - winAdmits.start >= MINUTE_MS
        /\ \A p \in Handlers :
             (ImageRequest(p) /\ ~QuotaRejection)
             => (winAdmits'.start = minuteWindowStart' \/ minuteWindowStart' > now)
                /\ now - winAdmits'.start < MINUTE_MS]_vars

C28_Witness ==
  /\ winAdmits.afterFull
  /\ winAdmits.n = imagesPerMinute
  /\ winAdmits.start = MINUTE_MS
  /\ winAdmits.first = MINUTE_MS
  /\ now = MINUTE_MS
  /\ requestsToday = 2 * imagesPerMinute

\* C24: a character blueprint never holds more than 3 reference images,
\* whatever files were selected and whenever their conversions finished.
C24_AtMostThreeRefImages == Len(refImages) <= MaxRefImages

\* C27: after a load of src has failed, a later loadScript(src) starts a new
\* load attempt (it neither finds the failure memoized nor resolves without
\* loading); while a load is pending, further callers share it: they await
\* the same promise and no second attempt is started.
C27_FailedLoadIsRetried ==
  [][\A src \in Srcs :
       /\ (/\ loadedScripts[src] = "absent"
           /\ scriptTags[src] > 0
           /\ loadedScripts'[src] # "absent")
          => (/\ loadedScripts'[src] = "pending"
              /\ scriptTags'[src] = scriptTags[src] + 1)
       /\ (loadedScripts[src] = "pending" /\ awaiting'[src] > awaiting[src])
          => (/\ loadedScripts'[src] = "pending"
              /\ scriptTags'[src] = scriptTags[src])
       /\ loadedScripts[src] = "resolved" => scriptRan[src]]_vars

\* C29: after any addSceneToStoryboard and updateActiveScene calls every
\* storyboard scene has exactly one version with isCurrent = true, and it is
\* the last of its versions; no step removes a version a scene already has or
\* changes its image; and adding a scene whose id the storyboard already
\* holds changes nothing.
C29_VersionsKept ==
  [][ /\ \A i \in DOMAIN storyboard' :
           LET versions == storyboard'[i].versions
           IN  /\ versions # <<>>
               /\ \A j \in DOMAIN versions : versions[j].isCurrent <=> j = Len(versions)
      /\ \A i \in DOMAIN storyboard :
           /\ i \in DOMAIN storyboard'
           /\ storyboard'[i].id = storyboard[i].id
           /\ \A j \in DOMAIN storyboard[i].versions :
                /\ j \in DOMAIN storyboard'[i].versions
                /\ storyboard'[i].versions[j].image = storyboard[i].versions[j].image
      /\ \A img \in Images :
           GenerateSettles(img, TRUE) /\ FindScene(storyboard, sceneClock + 1) # 0
             => storyboard' = storyboard
    ]_vars

\* C30: the active scene's editHistory and imageHistory have the same length,
\* at least 1, and its image is the last imageHistory entry, after every
\* generate, apply-edit and revert; handleRevertTo(index) with
\* 0 <= index < length cuts both histories to their first index + 1 entries,
\* and with any other index, or while an edit is loading, it changes nothing.
C30_HistoriesAligned ==
  [][ /\ activeScene' # NoScene =>
           /\ Len(activeScene'.editHistory) = Len(activeScene'.imageHistory)
           /\ Len(activeScene'.imageHistory) >= 1
           /\ activeScene'.image =
                activeScene'.imageHistory[Len(activeScene'.imageHistory)]
      /\ \A index \in (-1)..MaxEdits :
           HandleRevertTo(index) =>
             IF /\ activeScene # NoScene
                /\ ~isLoading
                /\ 0 <= index
                /\ index < Len(activeScene.imageHistory)
             THEN /\ activeScene'.editHistory = SubSeq(activeScene.editHistory, 1, index + 1)
                  /\ activeScene'.imageHistory = SubSeq(activeScene.imageHistory, 1, index + 1)
             ELSE UNCHANGED <<activeScene, storyboard, updates, editCall>>
    ]_vars

\* the scene was edited and then taken back to its first image: it has three
\* versions in the storyboard and a history of one entry
C30_Witness ==
  /\ activeScene # NoScene
  /\ updates = <<>>
  /\ VersionsOf(activeScene.id) = 3
  /\ Len(activeScene.imageHistory) = 1
  /\ Len(activeScene.editHistory) = 1

====
